---- MODULE Spec2Model ----
(***************************************************************************)
(* region_cache: a tree of named cache regions kept in Redis hashes.       *)
(*                                                                         *)
(* One process (a RegionCache with its registry of Region objects) works   *)
(* against one Redis store.  Region names are modelled as the sequence of  *)
(* their dot-separated segments: 'root.a.b' is <<"root", "a", "b">>.       *)
(* Time advances in whole seconds (the action Tick).                       *)
(*                                                                         *)
(* The code is written against redis-py; the model takes the behaviour of  *)
(* a current redis-py: a Pipeline object is always truthy, pipeline() is   *)
(* transactional (MULTI/EXEC) and constructing a client does not connect.  *)
(***************************************************************************)
EXTENDS Integers, Sequences, FiniteSets, TLC

VARIABLES
    hashes,            \* Redis: region name -> hash (field -> raw value), existing hashes only
    ttl,               \* Redis: region name -> remaining seconds, keys with an expiry only
    child_caches,      \* Redis: region name -> set '<name>::child_caches', non-empty sets only
    _regions,          \* RegionCache._regions: name -> the Region (_timeout, _update_resets_timeout,
                       \* and which construction of that name the object is)
    _pipe,             \* Region._pipe of every registered region: None or the buffered commands
    _w_conn,           \* RegionCache._w_conn is set
    _r_conn,           \* RegionCache._r_conn is set
    _reconnect_after,  \* RegionCache._reconnect_after: None or the seconds left until it
    made,              \* how many times Region.__init__ has run, per name
    receivers,         \* blinker: signal name -> the regions whose handlers are connected, in order
    cfg,               \* the RegionCache's construction parameters
    depth,             \* the caller: number of 'with region:' blocks it is inside, per region
    last,              \* the most recent call: what was called and how it ended
    hist,              \* what the caller has done so far (bookkeeping for the properties)
    walk,              \* the invalidate() in progress: its recursion stack and its pipeline
    pending            \* the __setitem__ in progress: the store operation it makes next

vars == <<hashes, ttl, child_caches, _regions, _pipe, _w_conn, _r_conn,
          _reconnect_after, made, receivers, cfg, depth, last, hist, walk, pending>>

\* Python's None, for the values the model keeps as strings
None == "None"
\* _reconnect_after is None
NoDeadline == -1
\* a timeout or a backoff of None (as falsy as 0)
NoSeconds == 0
\* hget's None: the field is missing
NoRaw == <<>>
\* datetime.utcnow().isoformat()
NowIso == <<"isoformat">>
\* True and False, for a flag that may also be None
Truthy(x) == x = "True"

(***************************************************************************)
(* Bounds of the model.                                                    *)
(***************************************************************************)
\* the TTL, in seconds, given to timed regions
T == 2
\* the reconnect backoff a facade is configured with
Backoff == 1
\* how long a day is, in seconds of the model (a timedelta's first argument is days)
DayLen == 2
\* how many commands one batch scope buffers
MaxBatch == 2
\* how deep 'with region:' blocks nest
MaxNest == 2
\* handlers connected to one signal
MaxReceivers == 2

Keys == {"k1", "k2"}
Values == {1, 2}
CreatedAt == "__cache_region_created_at__"
Fields == Keys \cup {CreatedAt}

(***************************************************************************)
(* The serializer (pickle): dumps and loads.                               *)
(***************************************************************************)
dumps(v) == <<"pickle", v>>
loads(raw) == raw[2]

(***************************************************************************)
(* The program state an operation works on, as one record.                 *)
(***************************************************************************)
Cur ==
    [hashes |-> hashes, ttl |-> ttl, child |-> child_caches, regs |-> _regions,
     pipe |-> _pipe, w |-> _w_conn, r |-> _r_conn, ra |-> _reconnect_after,
     made |-> made, sig |-> receivers]

Install(S) ==
    /\ hashes' = S.hashes
    /\ ttl' = S.ttl
    /\ child_caches' = S.child
    /\ _regions' = S.regs
    /\ _pipe' = S.pipe
    /\ _w_conn' = S.w
    /\ _r_conn' = S.r
    /\ _reconnect_after' = S.ra
    /\ made' = S.made
    /\ receivers' = S.sig

EmptyFn == [x \in {} |-> 0]
Restrict(f, D) == [x \in D |-> f[x]]
Put(f, x, y) == [z \in DOMAIN f \cup {x} |-> IF z = x THEN y ELSE f[z]]

(***************************************************************************)
(* Redis commands.                                                         *)
(***************************************************************************)
HExists(S, n) == n \in DOMAIN S.hashes

HLen(S, n) == IF HExists(S, n) THEN Cardinality(DOMAIN S.hashes[n]) ELSE 0

HGet(S, n, f) ==
    IF HExists(S, n) /\ f \in DOMAIN S.hashes[n] THEN S.hashes[n][f] ELSE NoRaw

\* HSET creates the hash when it is missing; a new key has no expiry
HSet(S, n, f, raw) ==
    [S EXCEPT !.hashes = Put(S.hashes, n,
                             IF HExists(S, n) THEN Put(S.hashes[n], f, raw)
                             ELSE Put(<<>>, f, raw))]

\* DEL removes the key together with its expiry
Del(S, n) ==
    [S EXCEPT !.hashes = Restrict(S.hashes, DOMAIN S.hashes \ {n}),
              !.ttl = Restrict(S.ttl, DOMAIN S.ttl \ {n})]

\* HDEL removes the field; a hash left without fields is removed
HDel(S, n, f) ==
    IF ~HExists(S, n) THEN S
    ELSE LET h == Restrict(S.hashes[n], DOMAIN S.hashes[n] \ {f})
         IN  IF DOMAIN h = {} THEN Del(S, n)
             ELSE [S EXCEPT !.hashes = Put(S.hashes, n, h)]

\* EXPIRE sets the remaining life of an existing key and does nothing to a missing one
Expire(S, n, secs) ==
    IF HExists(S, n) THEN [S EXCEPT !.ttl = Put(S.ttl, n, secs)] ELSE S

\* TTL: -2 for a missing key, -1 for a key without expiry
TTLQuery(n) ==
    IF n \notin DOMAIN hashes THEN -2
    ELSE IF n \in DOMAIN ttl THEN ttl[n] ELSE -1

SMembers(S, n) == IF n \in DOMAIN S.child THEN S.child[n] ELSE {}

SAdd(S, n, m) == [S EXCEPT !.child = Put(S.child, n, SMembers(S, n) \cup {m})]

(***************************************************************************)
(* RegionCache: the connections.                                           *)
(***************************************************************************)
\* is_disconnected
is_disconnected(S) ==
    /\ ~(S.w /\ S.r)
    /\ S.ra # NoDeadline
    /\ S.ra > 0

\* datetime.timedelta(n): n days, in seconds
timedelta(n) == n * DayLen

\* invalidate_connections
invalidate_connections(S) ==
    [S EXCEPT !.r = FALSE, !.w = FALSE,
              !.ra = IF cfg.reconnect_backoff # NoSeconds
                     THEN timedelta(cfg.reconnect_backoff) ELSE @]

\* the property conn: creates the client when there is none
conn(S) ==
    IF ~S.w THEN [S EXCEPT !.ra = NoDeadline, !.w = TRUE] ELSE S

\* the property read_conn: the replica's client when a replica is configured
read_conn(S) ==
    IF ~S.r
    THEN IF cfg.rr_host
         THEN [S EXCEPT !.ra = NoDeadline, !.r = TRUE]
         ELSE conn([S EXCEPT !.ra = NoDeadline])
    ELSE S

\* only a client built with socket_timeout raises redis.TimeoutError
WriteCanTimeOut == cfg.op_timeout
ReadCanTimeOut == cfg.op_timeout /\ ~cfg.rr_host

(***************************************************************************)
(* What a call gives back: the state it leaves, the exception it raises    *)
(* (None when it returns), the value it returns (0 when it has none), and  *)
(* what it did on the way: "wrote" (a write reached the store), "reset"    *)
(* (it set the region's expiry), "piped" (it queued the write on the       *)
(* batch), "dropped" (it skipped the write).                               *)
(***************************************************************************)
Returns(S, v) == [S |-> S, exc |-> None, val |-> v, fx |-> {}]
Raises(S, e) == [S |-> S, exc |-> e, val |-> 0, fx |-> {}]
Did(R, fx) == [R EXCEPT !.fx = fx]

(***************************************************************************)
(* RegionCache.region and Region.__init__.                                 *)
(***************************************************************************)
NoPipe == [open |-> FALSE, cmds |-> <<>>]

\* name.startswith('root.')
StartsWithRootDot(name) == Len(name) >= 2 /\ name[1] = "root"

\* '.' in name; name.rsplit('.', 1)[0]
HasDot(name) == Len(name) > 1
Parent(name) == SubSeq(name, 1, Len(name) - 1)

RECURSIVE region(_, _, _, _)
RECURSIVE RegionWalk(_, _, _, _, _)
RECURSIVE Region_init(_, _, _, _)

\* Region.add_child, called on the region named parent
add_child(S, parent, child) == SAdd(conn(S), parent, child)

\* Region.__init__ giving the hash no expiry
Region_init_NoExpire(S, name, timeout, urt) ==
    LET S0 == [S EXCEPT !.made = Put(S.made, name,
                                     IF name \in DOMAIN S.made THEN S.made[name] + 1
                                     ELSE 1)]
        S1 == HSet(conn(S0), name, CreatedAt, NowIso)
    IN  IF HasDot(name)
        THEN LET P == region(S1, Parent(name), NoSeconds, "True")
             IN  add_child(P.S, P.name, name)
        ELSE S1

\* Region.__init__: the hash gets its creation field, its expiry, and the
\* region is added to its parent's child set
Region_init(S, name, timeout, urt) ==
    LET S0 == [S EXCEPT !.made = Put(S.made, name,
                                     IF name \in DOMAIN S.made THEN S.made[name] + 1
                                     ELSE 1)]
        S1 == HSet(conn(S0), name, CreatedAt, NowIso)
        S2 == IF timeout # NoSeconds THEN Expire(conn(S1), name, timeout) ELSE S1
    IN  IF HasDot(name)
        THEN LET P == region(S2, Parent(name), NoSeconds, "True")
             IN  add_child(P.S, P.name, name)
        ELSE S2

\* self._regions[fqname] = Region(...)
Register(S, name, timeout, urt) ==
    [S EXCEPT !.regs = Put(S.regs, name, [timeout |-> timeout, urt |-> urt,
                                          inst |-> S.made[name]]),
              !.pipe = Put(S.pipe, name, NoPipe)]

\* the loop constructing a Region for every prefix, registered or not
RegionWalk_Always(S, full, i, timeout, urt) ==
    IF i > Len(full) THEN S
    ELSE LET fqname == SubSeq(full, 1, i)
         IN  RegionWalk(Register(Region_init(S, fqname, timeout, urt),
                                 fqname, timeout, urt),
                        full, i + 1, timeout, urt)

\* the loop of RegionCache.region over the prefixes of the qualified name
RegionWalk(S, full, i, timeout, urt) ==
    IF i > Len(full) THEN S
    ELSE LET fqname == SubSeq(full, 1, i)
             S1 == IF fqname \notin DOMAIN S.regs
                   THEN Register(Region_init(S, fqname, timeout, urt),
                                 fqname, timeout, urt)
                   ELSE S
         IN  RegionWalk(S1, full, i + 1, timeout, urt)

\* the name RegionCache.region walks: the root name is put in front of a
\* name that is not the root name and does not start with 'root.'
Qualified(name) ==
    IF name # <<cfg.root>> /\ ~StartsWithRootDot(name)
    THEN <<cfg.root>> \o name
    ELSE name

\* RegionCache.region(name, timeout, update_resets_timeout); name <<>> is None.
\* Gives the state and the name of the Region returned.
region(S, name0, timeout, urt) ==
    LET name == IF name0 = <<>> THEN <<cfg.root>> ELSE name0
    IN  IF name \in DOMAIN S.regs
        THEN [S |-> S, name |-> name]
        ELSE [S |-> RegionWalk(S, Qualified(name), 1, timeout, urt),
              name |-> Qualified(name)]

\* Region.region passing the timeout it was given, not the region's own
sub_region_NoInherit(S, self, name, timeout, urt) ==
    region(S, self \o name, timeout,
           IF S.regs[self].urt # None THEN urt ELSE S.regs[self].urt)

\* Region.region(name, timeout, update_resets_timeout) of the region self
sub_region(S, self, name, timeout, urt) ==
    region(S, self \o name,
           IF timeout # NoSeconds THEN timeout ELSE S.regs[self].timeout,
           IF S.regs[self].urt # None THEN urt ELSE S.regs[self].urt)

(***************************************************************************)
(* Region: item access.                                                    *)
(***************************************************************************)
\* __len__
len(S, n) == HLen(S, n)

\* __getitem__ reading the store whatever the connection state
getitem_NoBackoff(S, n, item, to) ==
    LET S1 == read_conn(S)
        raw_value == HGet(S1, n, item)
    IN  IF to
        THEN IF cfg.raise_on_timeout THEN Raises(S1, "TimeoutError")
             ELSE Raises(IF cfg.reconnect_on_timeout
                         THEN invalidate_connections(S1) ELSE S1,
                         "KeyError")
        ELSE IF raw_value # NoRaw
        THEN Returns(S1, loads(raw_value))
        ELSE Raises(S1, "KeyError")

\* __getitem__; to: the hget times out
getitem(S, n, item, to) ==
    IF is_disconnected(S) THEN Raises(S, "KeyError")
    ELSE LET S1 == read_conn(S)
             raw_value == HGet(S1, n, item)
         IN  IF to
             THEN IF cfg.raise_on_timeout THEN Raises(S1, "TimeoutError")
                  ELSE Raises(IF cfg.reconnect_on_timeout
                              THEN invalidate_connections(S1) ELSE S1,
                              "KeyError")
             ELSE IF raw_value # NoRaw
                  THEN Returns(S1, loads(raw_value))
                  ELSE Raises(S1, "KeyError")

\* MutableMapping.__contains__: item access, a KeyError meaning absent
contains(S, n, key, to) ==
    LET G == getitem(S, n, key, to)
    IN  [S |-> G.S,
         exc |-> IF G.exc = "KeyError" THEN None ELSE G.exc,
         val |-> IF G.exc = None THEN 1 ELSE 0,
         fx |-> {}]

\* __setitem__ writing whatever the connection state
setitem_Always(S, n, key, value, to) ==
    IF S.pipe[n].open
    THEN Did(Returns([S EXCEPT !.pipe[n].cmds =
                          Append(@, [op |-> "hset", name |-> n, key |-> key,
                                     raw |-> dumps(value)])], 0),
             {"piped"})
    ELSE Did(Returns(HSet(conn(S), n, key, dumps(value)), 0), {"wrote"})

\* __setitem__ writing the field and never setting the expiry
setitem_NoReset(S, n, key, value, to) ==
    IF is_disconnected(S) THEN Did(Returns(S, 0), {"dropped"})
    ELSE IF S.pipe[n].open
    THEN Did(Returns([S EXCEPT !.pipe[n].cmds =
                          Append(@, [op |-> "hset", name |-> n, key |-> key,
                                     raw |-> dumps(value)])], 0),
             {"piped"})
    ELSE Did(Returns(HSet(conn(S), n, key, dumps(value)), 0), {"wrote"})

\* __setitem__; to: the store operation of the call that times out
\* (0 none, 1 hlen, 2 hset, 3 expire)
setitem(S, n, key, value, to) ==
    LET raw_value == dumps(value)
        self == S.regs[n]
        piped == S.pipe[n].open
        asksLen == ~piped /\ self.timeout # NoSeconds /\ ~Truthy(self.urt)
        S1 == IF asksLen THEN conn(S) ELSE S
        should_reset_timeout ==
            /\ ~piped
            /\ self.timeout # NoSeconds
            /\ (Truthy(self.urt) \/ len(S1, n) = 0)
        S2 == IF piped
              THEN [S1 EXCEPT !.pipe[n].cmds =
                        Append(@, [op |-> "hset", name |-> n, key |-> key,
                                   raw |-> raw_value])]
              ELSE HSet(conn(S1), n, key, raw_value)
        S3 == IF should_reset_timeout THEN Expire(conn(S2), n, self.timeout) ELSE S2
        wrote == IF piped THEN {"piped"} ELSE {"wrote"}
    IN  IF is_disconnected(S) THEN Did(Returns(S, 0), {"dropped"})
        ELSE IF asksLen /\ to = 1 THEN Raises(S1, "TimeoutError")
        ELSE IF ~piped /\ to = 2 THEN Raises(conn(S1), "TimeoutError")
        ELSE IF should_reset_timeout /\ to = 3
        THEN Did(Raises(conn(S2), "TimeoutError"), wrote)
        ELSE Did(Returns(S3, 0),
                 wrote \cup IF should_reset_timeout THEN {"reset"} ELSE {})

\* __delitem__ leaving the field in the hash
delitem_Keep(S, n, key, to) ==
    IF is_disconnected(S) THEN Did(Raises(S, "TimeoutError"), {"dropped"})
    ELSE IF S.pipe[n].open
    THEN Did(Returns([S EXCEPT !.pipe[n].cmds =
                          Append(@, [op |-> "hdel", name |-> n, key |-> key,
                                     raw |-> NoRaw])], 0),
             {"piped"})
    ELSE Did(Returns(conn(S), 0), {"wrote"})

\* __delitem__; to: the store operation of the call that times out
\* (0 none, 1 hlen, 2 the hget of 'key in self', 3 hdel, 4 expire)
delitem(S, n, key, to) ==
    LET self == S.regs[n]
        piped == S.pipe[n].open
        asksLen == ~piped /\ self.timeout # NoSeconds /\ ~Truthy(self.urt)
        S1 == IF asksLen THEN conn(S) ELSE S
        asksIn == asksLen /\ len(S1, n) = 1
        C == IF asksIn THEN contains(S1, n, key, to = 2) ELSE Returns(S1, 0)
        should_reset_timeout ==
            /\ ~piped
            /\ self.timeout # NoSeconds
            /\ (Truthy(self.urt) \/ (asksIn /\ C.val = 1))
        S2 == IF piped
              THEN [C.S EXCEPT !.pipe[n].cmds =
                        Append(@, [op |-> "hdel", name |-> n, key |-> key,
                                   raw |-> NoRaw])]
              ELSE HDel(conn(C.S), n, key)
        S3 == IF should_reset_timeout THEN Expire(conn(S2), n, self.timeout) ELSE S2
        wrote == IF piped THEN {"piped"} ELSE {"wrote"}
    IN  IF is_disconnected(S) THEN Did(Raises(S, "TimeoutError"), {"dropped"})
        ELSE IF asksLen /\ to = 1 THEN Raises(S1, "TimeoutError")
        ELSE IF C.exc # None THEN Raises(C.S, C.exc)
        ELSE IF ~piped /\ to = 3 THEN Raises(conn(C.S), "TimeoutError")
        ELSE IF should_reset_timeout /\ to = 4
        THEN Did(Raises(conn(S2), "TimeoutError"), wrote)
        ELSE Did(Returns(S3, 0),
                 wrote \cup IF should_reset_timeout THEN {"reset"} ELSE {})

\* get_or_compute returning alt on a miss without storing it
get_or_compute_NoStore(S, n, item, alt, toGet, toSet) ==
    LET G == getitem(S, n, item, toGet)
    IN  IF G.exc = None
        THEN [S |-> G.S, exc |-> None, val |-> G.val, fx |-> {}, evals |-> 0]
        ELSE [S |-> G.S, exc |-> None, val |-> alt, fx |-> {}, evals |-> 1]

\* get_or_compute; alt: the value of alt (a literal, or what alt() returns).
\* toGet, toSet: the timeouts of the item read and of the item write.
\* evals: how often alt was evaluated.
get_or_compute(S, n, item, alt, toGet, toSet) ==
    LET G == getitem(S, n, item, toGet)
        W == setitem(G.S, n, item, alt, toSet)
    IN  IF G.exc = None
        THEN [S |-> G.S, exc |-> None, val |-> G.val, fx |-> {}, evals |-> 0]
        ELSE IF G.exc = "KeyError"
        THEN [S |-> W.S, exc |-> W.exc, val |-> IF W.exc = None THEN alt ELSE 0,
              fx |-> W.fx, evals |-> 1]
        ELSE [S |-> G.S, exc |-> None, val |-> alt, fx |-> {}, evals |-> 1]

\* the arguments a cached function is called with, and the key made of them:
\* self._serializer.dumps((args, kwargs))
Args == {1, 2}
dumps_args(args) == IF args = 1 THEN "pickle(((1,), {}))" ELSE "pickle(((2,), {}))"

\* the wrapper of cached calling f again without storing what it returned
cached_NoStore(S, n, args, ret, toGet, toSet) ==
    LET G == getitem(S, n, dumps_args(args), toGet)
    IN  IF G.exc = None
        THEN [S |-> G.S, exc |-> None, val |-> G.val, fx |-> {}, evals |-> 0]
        ELSE [S |-> G.S, exc |-> None, val |-> ret, fx |-> {}, evals |-> 1]

\* the wrapper Region.cached(f) returns, called with args; ret: what f
\* returns if it is called.  evals: how often f was called.
cached(S, n, args, ret, toGet, toSet) ==
    LET key == dumps_args(args)
        G == getitem(S, n, key, toGet)
        W == setitem(G.S, n, key, ret, toSet)
    IN  IF G.exc = None
        THEN [S |-> G.S, exc |-> None, val |-> G.val, fx |-> {}, evals |-> 0]
        ELSE IF G.exc = "KeyError"
        THEN [S |-> W.S, exc |-> W.exc, val |-> IF W.exc = None THEN ret ELSE 0,
              fx |-> W.fx, evals |-> 1]
        ELSE [S |-> G.S, exc |-> G.exc, val |-> 0, fx |-> {}, evals |-> 0]

(***************************************************************************)
(* Region: the batch scope.                                                *)
(***************************************************************************)
RECURSIVE Execute(_, _)
\* pipeline.execute(): the buffered commands, in order, as one transaction
Execute(S, cmds) ==
    IF cmds = <<>> THEN S
    ELSE LET c == Head(cmds)
         IN  Execute(IF c.op = "hset" THEN HSet(S, c.name, c.key, c.raw)
                     ELSE IF c.op = "hdel" THEN HDel(S, c.name, c.key)
                     ELSE Del(S, c.name),
                     Tail(cmds))

\* __enter__
enter(S, n) ==
    IF ~S.pipe[n].open
    THEN Returns([conn(S) EXCEPT !.pipe[n] = [open |-> TRUE, cmds |-> <<>>]], 0)
    ELSE Returns(S, 0)

\* __exit__ when the body ended without an exception; to: the store
\* operation that times out (0 none, 1 hlen, 2 execute, 3 expire).
\* A timed-out execute leaves the pipeline reset (redis-py resets it in a
\* finally clause) and the region's _pipe set.
exit_clean(S, n, to) ==
    LET self == S.regs[n]
        asksLen == self.timeout # NoSeconds /\ ~Truthy(self.urt)
        S1 == IF asksLen THEN conn(S) ELSE S
        should_reset_timeout ==
            self.timeout # NoSeconds /\ (Truthy(self.urt) \/ len(S1, n) = 0)
        S2 == [Execute(S1, S1.pipe[n].cmds) EXCEPT !.pipe[n].cmds = <<>>]
        S3 == IF should_reset_timeout THEN Expire(conn(S2), n, self.timeout) ELSE S2
    IN  IF asksLen /\ to = 1 THEN Raises(S1, "TimeoutError")
        ELSE IF ~S1.pipe[n].open THEN Raises(S1, "AttributeError")
        ELSE IF to = 2 THEN Raises([S1 EXCEPT !.pipe[n].cmds = <<>>], "TimeoutError")
        ELSE IF should_reset_timeout /\ to = 3
        THEN Did(Raises(conn(S2), "TimeoutError"), {"wrote"})
        ELSE Did(Returns([S3 EXCEPT !.pipe[n] = NoPipe], 1),
                 {"wrote"} \cup IF should_reset_timeout THEN {"reset"} ELSE {})

\* __exit__ when the body raised: the value returned is False (0), so the
\* body's exception goes on to the caller
exit_exc(S, n) ==
    IF ~S.pipe[n].open THEN Raises(S, "AttributeError")
    ELSE Returns([S EXCEPT !.pipe[n] = NoPipe], 0)

(***************************************************************************)
(* Region: invalidation.                                                   *)
(***************************************************************************)
RECURSIVE invalidate_rec(_, _, _)
RECURSIVE InvalidateChildren(_, _, _)

\* children() finding no child
children_None(S, n) == {}

\* children() looking in the process's own registry
children_Registered(S, n) == {m \in DOMAIN S.regs : HasDot(m) /\ Parent(m) = n}

\* Region.children: the regions of the names in the remote child set
children(S, n) == SMembers(S, n)

\* the loop 'for child in self.children(): child.invalidate(pipeline)'
InvalidateChildren(S, todo, pipeline) ==
    IF todo = {} THEN [S |-> S, pipeline |-> pipeline]
    ELSE LET name == CHOOSE x \in todo : TRUE
             child == region(S, name, NoSeconds, "True")
             R == invalidate_rec(child.S, child.name, pipeline)
         IN  InvalidateChildren(R.S, todo \ {name}, R.pipeline)

\* Region.invalidate(pipeline) with a pipeline given
invalidate_rec(S, n, pipeline) ==
    LET S1 == read_conn(S)
        R == InvalidateChildren(S1, children(S1, n), pipeline)
    IN  [S |-> R.S,
         pipeline |-> Append(R.pipeline,
                             [op |-> "delete", name |-> n, key |-> "", raw |-> NoRaw])]

\* invalidate() deleting every hash of the store
invalidate_Everything(S, n, to) ==
    Returns([conn(S) EXCEPT !.hashes = EmptyFn, !.ttl = EmptyFn], 0)

\* Region.invalidate(); to: the store operation that times out
\* (0 none, 1 the smembers of the region itself, 2 execute)
invalidate(S, n, to) ==
    LET S0 == conn(S)
        R == invalidate_rec(S0, n, <<>>)
    IN  IF to = 1 THEN Raises(read_conn(S0), "TimeoutError")
        ELSE IF to = 2 THEN Raises(R.S, "TimeoutError")
        ELSE Returns(Execute(R.S, R.pipeline), 0)

(***************************************************************************)
(* invalidate() one store operation at a time, so that other processes can *)
(* act in between.  A frame is one call of invalidate on the recursion     *)
(* stack: the region, the children its smembers gave that are still to be  *)
(* visited, and is_root_call.                                              *)
(***************************************************************************)
\* a call of invalidate that commits whether or not it was given a pipeline
Frame_Root(S, n, given) ==
    [name |-> n, todo |-> children(S, n), is_root_call |-> TRUE]

\* invalidate(pipeline) is entered on n; given: a pipeline was passed.
\* The loop's generator reads the child set.
Frame(S, n, given) ==
    [name |-> n, todo |-> children(S, n), is_root_call |-> ~given]

\* pipeline.delete(self.name) on the frame on top, then the return
Queued(w) ==
    Append(w.pipeline,
           [op |-> "delete", name |-> w.stack[Len(w.stack)].name, key |-> "",
            raw |-> NoRaw])

(***************************************************************************)
(* Region: invalidation on blinker signals.                                *)
(***************************************************************************)
Signals == {"named_signal", "other_signal"}

RECURSIVE invalidate_on(_, _, _)
RECURSIVE send(_, _, _, _)
RECURSIVE SendFrom(_, _, _, _)

ReceiversOf(S, sig) == IF sig \in DOMAIN S.sig THEN S.sig[sig] ELSE <<>>

\* sig.connect(handler, weak=False), handler being the closure made by a
\* call of invalidate_on of the region n
connect(S, sig, n) == [S EXCEPT !.sig = Put(@, sig, Append(ReceiversOf(S, sig), n))]

\* Region.invalidate_on(*signals)
invalidate_on(S, n, signals) ==
    IF signals = {} THEN S
    ELSE LET sig == CHOOSE x \in signals : TRUE
         IN  invalidate_on(connect(S, sig, n), n, signals \ {sig})

\* a handler that does not invalidate
handler_Idle(S, n, to) == Returns(S, 0)

\* 'except redis.TimeoutError:' of the handler: the timeout is logged
Logged(R) ==
    IF R.exc = "TimeoutError" THEN Did(Returns(R.S, 0), {"logged"}) ELSE R

\* the handler invalidate_on connects: invalidate, a timeout caught and logged
handler(S, n, to) == Logged(invalidate(S, n, to))

\* sig.send(...): the handlers connected to the signal run in turn, from the
\* i-th on; tos: the store operation that times out in each.  Gives the
\* state and the handlers (by position) that logged a timeout.
send(S, rs, tos, i) ==
    IF i > Len(rs) THEN [S |-> S, late |-> {}]
    ELSE SendFrom(handler(S, rs[i], tos[i]), rs, tos, i)

\* the rest of the send after the i-th handler has ended as H
SendFrom(H, rs, tos, i) ==
    [send(H.S, rs, tos, i + 1)
        EXCEPT !.late = @ \cup IF "logged" \in H.fx THEN {i} ELSE {}]

(***************************************************************************)
(* The calls of a caller, as actions.                                      *)
(***************************************************************************)
\* n is r or a descendant of r
Under(r, n) == Len(n) >= Len(r) /\ SubSeq(n, 1, Len(r)) = r

\* the keys (not the housekeeping field) a region's hash holds
UserKeys(S, n) == IF HExists(S, n) THEN DOMAIN S.hashes[n] \cap Keys ELSE {}

HashOf(n) == IF n \in DOMAIN hashes THEN hashes[n] ELSE EmptyFn
ExpiryOf(n) == IF n \in DOMAIN ttl THEN ttl[n] ELSE -1
Depth(n) == IF n \in DOMAIN depth THEN depth[n] ELSE 0

\* The record of the most recent call: what was called (op, name, arg, key,
\* alt), how it ended (exc, val, fx, evals), and what held when it was made:
\* reach (the facade was not in backoff and no store operation timed out),
\* miss (the key was absent from the hash), pre (the regions below the
\* invalidated one that held keys), fresh (a Region was constructed),
\* follows (the value the call just before stored for the same key through
\* get_or_compute, else 0), outer, snap and issued (the exit of an outermost
\* batch scope: the hash when the scope was opened, and the writes made in it).
NoCall ==
    [op |-> "none", name |-> <<>>, arg |-> <<>>, key |-> "", alt |-> 0,
     exc |-> None, val |-> 0, fx |-> {}, evals |-> 0, reach |-> TRUE,
     miss |-> FALSE, pre |-> {}, late |-> {}, fresh |-> FALSE, follows |-> 0,
     outer |-> FALSE, snap |-> EmptyFn, issued |-> <<>>]

Called(op, n, key, R) ==
    [NoCall EXCEPT !.op = op, !.name = n, !.key = key, !.exc = R.exc,
                   !.val = R.val, !.fx = R.fx]

\* RegionCache(...) with its defaults
DefaultCfg ==
    [root |-> "root", op_timeout |-> FALSE, reconnect_on_timeout |-> TRUE,
     raise_on_timeout |-> FALSE, reconnect_backoff |-> NoSeconds, rr_host |-> FALSE]

\* no invalidate() is in progress
NoWalk ==
    [active |-> FALSE, root |-> <<>>, stack |-> <<>>, pipeline |-> <<>>,
     seen |-> {}, commits |-> 0]

\* no __setitem__ is in progress
NoPending ==
    [active |-> FALSE, next |-> "", name |-> <<>>, key |-> "", raw |-> NoRaw,
     should_reset_timeout |-> FALSE]

\* a RegionCache just constructed, on an empty store
Fresh ==
    [hashes |-> EmptyFn, ttl |-> EmptyFn, child |-> EmptyFn, regs |-> EmptyFn,
     pipe |-> EmptyFn, w |-> FALSE, r |-> FALSE, ra |-> NoDeadline, made |-> EmptyFn,
     sig |-> EmptyFn]

(***************************************************************************)
(* Bookkeeping for the properties (hist).  It records, and changes         *)
(* nothing of the program:                                                 *)
(*   snap, issued: per region with a batch scope open, the hash when the   *)
(*     outermost scope was opened and the writes made since (kept when     *)
(*     scoped);                                                            *)
(*   recent: per followed region and key, the most recent operation on the *)
(*     key made directly on a reachable store (0 never set, 1 or 2 set to  *)
(*     that value, -1 deleted, -2 invalidated, -3 something else: a write  *)
(*     queued on a batch, dropped, or timed out), and whether the hash has *)
(*     expired since (gone);                                               *)
(*   clock: per followed region, the seconds since its expiry was last set *)
(*     (reset, counted up to T), whether a write reached the hash after    *)
(*     that (written), the key of the most recent direct set (wkey, "" when*)
(*     a delete, a commit or an invalidation came after it) and the seconds*)
(*     since it (wage, counted up to T).                                   *)
(***************************************************************************)
NoHist ==
    [scoped |-> FALSE, snap |-> EmptyFn, issued |-> EmptyFn, recent |-> EmptyFn,
     clock |-> EmptyFn]

NewClock == [reset |-> 0, written |-> FALSE, wkey |-> "", wage |-> 0]
NeverSet == [k \in Keys |-> [what |-> 0, gone |-> FALSE]]

Min(a, b) == IF a < b THEN a ELSE b

\* the scope bookkeeping after a write call (cmd) on n that returned
NoteIssued(h, n, R, cmd) ==
    IF Depth(n) > 0 /\ R.exc = None /\ n \in DOMAIN h.issued
    THEN [h EXCEPT !.issued[n] = Append(@, cmd)]
    ELSE h

\* the most recent operation on key of n: code when the call was made
\* directly on a reachable store and returned, else -3
NoteRecent(h, n, key, R, code) ==
    IF n \in DOMAIN h.recent
    THEN [h EXCEPT !.recent[n][key] =
              [what |-> IF R.exc = None /\ "wrote" \in R.fx THEN code ELSE -3,
               gone |-> FALSE]]
    ELSE h

\* the clock of n after a call: an expiry set, a write, a direct set of key
NoteClock(h, n, R, key) ==
    IF n \in DOMAIN h.clock
    THEN [h EXCEPT !.clock[n] =
              [reset |-> IF "reset" \in R.fx THEN 0 ELSE @.reset,
               written |-> IF "reset" \in R.fx THEN FALSE
                           ELSE IF "wrote" \in R.fx THEN TRUE ELSE @.written,
               wkey |-> IF "wrote" \notin R.fx THEN @.wkey
                        ELSE IF R.exc = None THEN key
                        ELSE "",
               wage |-> IF "wrote" \in R.fx /\ R.exc = None /\ key # ""
                        THEN 0 ELSE @.wage]]
    ELSE h

\* a batch, and a scope, takes MaxBatch writes
InBatchBound(n) ==
    /\ _pipe[n].open => Len(_pipe[n].cmds) < MaxBatch
    /\ n \in DOMAIN hist.issued => Len(hist.issued[n]) < MaxBatch

\* region_cache.region(name, timeout=timeout, update_resets_timeout=urt)
RegionCall(names, timeouts, urts) ==
    \E name \in names, timeout \in timeouts, urt \in urts :
        LET R == region(Cur, name, timeout, urt)
        IN  /\ Install(R.S)
            /\ last' = [Called("region", R.name, "", Returns(R.S, 0))
                           EXCEPT !.arg = name, !.fresh = R.S.regs # _regions]
            /\ UNCHANGED <<cfg, depth, hist, walk, pending>>

\* parent.region(name): a sub-region, with the parent's settings
SubRegionCall(selves, segs) ==
    \E self \in DOMAIN _regions \cap selves, seg \in segs :
        /\ LET R == sub_region(Cur, self, <<seg>>, NoSeconds, None)
           IN  /\ Install(R.S)
               /\ last' = [Called("sub_region", R.name, "", Returns(R.S, 0))
                              EXCEPT !.arg = self \o <<seg>>,
                                     !.fresh = R.S.regs # _regions]
               /\ UNCHANGED <<cfg, depth, hist, walk, pending>>

\* region[key]
GetCall(names, keys) ==
    \E n \in DOMAIN _regions \cap names, key \in keys, to \in BOOLEAN :
        /\ to => ReadCanTimeOut
        /\ LET R == getitem(Cur, n, key, to)
           IN  /\ Install(R.S)
               /\ last' = [Called("get", n, key, R)
                              EXCEPT !.reach = ~to /\ ~is_disconnected(Cur),
                                     !.miss = HGet(Cur, n, key) = NoRaw]
               /\ UNCHANGED <<cfg, depth, hist, walk, pending>>

\* region[key] = value
SetCall(names, keys, values) ==
    \E n \in DOMAIN _regions \cap names, key \in keys, value \in values,
       to \in 0 .. 3 :
        /\ to # 0 => WriteCanTimeOut
        /\ InBatchBound(n)
        /\ LET R == setitem(Cur, n, key, value, to)
           IN  /\ Install(R.S)
               /\ last' = [Called("set", n, key, R)
                              EXCEPT !.reach = R.exc = None /\ ~is_disconnected(Cur)]
               /\ hist' = NoteClock(
                              NoteRecent(
                                  NoteIssued(hist, n, R,
                                             [op |-> "hset", name |-> n, key |-> key,
                                              raw |-> dumps(value)]),
                                  n, key, R, value),
                              n, R, key)
               /\ UNCHANGED <<cfg, depth, walk, pending>>

\* del region[key]
DelCall(names, keys) ==
    \E n \in DOMAIN _regions \cap names, key \in keys, to \in 0 .. 4 :
        /\ to \in {1, 3, 4} => WriteCanTimeOut
        /\ to = 2 => ReadCanTimeOut
        /\ InBatchBound(n)
        /\ LET R == delitem(Cur, n, key, to)
           IN  /\ Install(R.S)
               /\ last' = [Called("del", n, key, R)
                              EXCEPT !.reach = R.exc = None /\ ~is_disconnected(Cur)]
               /\ hist' = NoteClock(
                              NoteRecent(
                                  NoteIssued(hist, n, R,
                                             [op |-> "hdel", name |-> n, key |-> key,
                                              raw |-> NoRaw]),
                                  n, key, R, -1),
                              n, R, "")
               /\ UNCHANGED <<cfg, depth, walk, pending>>

\* region.get_or_compute(key, alt)
GetOrComputeCall(names, keys, values) ==
    \E n \in DOMAIN _regions \cap names, key \in keys, alt \in values,
       toGet \in BOOLEAN, toSet \in 0 .. 3 :
        /\ toGet => ReadCanTimeOut
        /\ toSet # 0 => WriteCanTimeOut
        /\ InBatchBound(n)
        /\ LET R == get_or_compute(Cur, n, key, alt, toGet, toSet)
               wrote == R.fx # {}
           IN  /\ Install(R.S)
               /\ last' = [Called("get_or_compute", n, key, R)
                              EXCEPT !.alt = alt,
                                     !.evals = R.evals,
                                     !.reach = /\ ~is_disconnected(Cur)
                                               /\ ~toGet
                                               /\ R.exc = None,
                                     !.miss = HGet(Cur, n, key) = NoRaw,
                                     !.follows =
                                         IF /\ last.op = "get_or_compute"
                                            /\ last.name = n
                                            /\ last.key = key
                                            /\ last.miss
                                            /\ last.reach
                                         THEN last.val ELSE 0]
               /\ hist' = IF wrote
                          THEN NoteClock(
                                   NoteRecent(
                                       NoteIssued(hist, n, R,
                                                  [op |-> "hset", name |-> n,
                                                   key |-> key, raw |-> dumps(alt)]),
                                       n, key, R, alt),
                                   n, R, key)
                          ELSE hist
               /\ UNCHANGED <<cfg, depth, walk, pending>>

\* f(args), f wrapped by region.cached
CachedCall(names, argss, values) ==
    \E n \in DOMAIN _regions \cap names, args \in argss, ret \in values,
       toGet \in BOOLEAN, toSet \in 0 .. 3 :
        /\ toGet => ReadCanTimeOut
        /\ toSet # 0 => WriteCanTimeOut
        /\ InBatchBound(n)
        /\ LET R == cached(Cur, n, args, ret, toGet, toSet)
               key == dumps_args(args)
           IN  /\ Install(R.S)
               /\ last' = [Called("cached", n, key, R)
                              EXCEPT !.alt = ret,
                                     !.evals = R.evals,
                                     !.reach = /\ ~is_disconnected(Cur)
                                               /\ ~toGet
                                               /\ R.exc = None,
                                     !.miss = HGet(Cur, n, key) = NoRaw,
                                     !.follows =
                                         IF /\ last.op = "cached"
                                            /\ last.name = n
                                            /\ last.key = key
                                            /\ last.reach
                                         THEN last.val ELSE 0]
               /\ hist' = IF R.fx # {}
                          THEN NoteClock(
                                   NoteIssued(hist, n, R,
                                              [op |-> "hset", name |-> n,
                                               key |-> key, raw |-> dumps(ret)]),
                                   n, R, "")
                          ELSE hist
               /\ UNCHANGED <<cfg, depth, walk, pending>>

\* 'with region:' is entered
EnterCall(names) ==
    \E n \in DOMAIN _regions \cap names :
        /\ Depth(n) < MaxNest
        /\ LET R == enter(Cur, n)
           IN  /\ Install(R.S)
               /\ last' = Called("enter", n, "", R)
               /\ depth' = Put(depth, n, Depth(n) + 1)
               /\ hist' = IF Depth(n) = 0 /\ hist.scoped
                          THEN [hist EXCEPT !.snap = Put(@, n, HashOf(n)),
                                            !.issued = Put(@, n, <<>>)]
                          ELSE hist
               /\ UNCHANGED <<cfg, walk, pending>>

\* the caller leaves a 'with' block on n
Leave(n) ==
    IF Depth(n) = 1 THEN Restrict(depth, DOMAIN depth \ {n})
    ELSE Put(depth, n, Depth(n) - 1)

\* what the exit of a scope on n leaves of the bookkeeping
ExitHist(n, R) ==
    LET h == NoteClock(hist, n, R, "")
        h1 == IF n \in DOMAIN h.recent /\ "wrote" \in R.fx
              THEN [h EXCEPT !.recent[n] =
                        [k \in Keys |->
                            IF \E i \in 1 .. Len(_pipe[n].cmds) :
                                   _pipe[n].cmds[i].key = k
                            THEN [what |-> -3, gone |-> FALSE]
                            ELSE @[k]]]
              ELSE h
    IN  IF Depth(n) = 1
        THEN [h1 EXCEPT !.snap = Restrict(@, DOMAIN @ \ {n}),
                        !.issued = Restrict(@, DOMAIN @ \ {n})]
        ELSE h1

ExitLast(op, n, R) ==
    IF Depth(n) = 1 /\ n \in DOMAIN hist.snap
    THEN [Called(op, n, "", R) EXCEPT !.snap = hist.snap[n],
                                      !.issued = hist.issued[n],
                                      !.outer = TRUE]
    ELSE Called(op, n, "", R)

\* the body of 'with region:' ends without an exception
ExitCleanCall(names) ==
    \E n \in DOMAIN _regions \cap names, to \in 0 .. 3 :
        /\ Depth(n) > 0
        /\ to # 0 => WriteCanTimeOut
        /\ LET R == exit_clean(Cur, n, to)
           IN  /\ Install(R.S)
               /\ last' = ExitLast("exit_clean", n, R)
               /\ depth' = Leave(n)
               /\ hist' = ExitHist(n, R)
               /\ UNCHANGED <<cfg, walk, pending>>

\* the body of 'with region:' raises
ExitExcCall(names) ==
    \E n \in DOMAIN _regions \cap names :
        /\ Depth(n) > 0
        /\ LET R == exit_exc(Cur, n)
           IN  /\ Install(R.S)
               /\ last' = ExitLast("exit_exc", n, R)
               /\ depth' = Leave(n)
               /\ hist' = ExitHist(n, [R EXCEPT !.exc = "body"])
               /\ UNCHANGED <<cfg, walk, pending>>

\* region.invalidate()
InvalidateCall(names) ==
    \E n \in DOMAIN _regions \cap names, to \in 0 .. 2 :
        /\ to = 1 => ReadCanTimeOut
        /\ to = 2 => WriteCanTimeOut
        /\ LET R == invalidate(Cur, n, to)
           IN  /\ Install(R.S)
               /\ last' = [Called("invalidate", n, "", R)
                              EXCEPT !.pre = {m \in DOMAIN hashes :
                                                 Under(n, m) /\ UserKeys(Cur, m) # {}},
                                     !.fresh = R.S.regs # _regions,
                                     !.reach = R.exc = None]
               /\ hist' = [hist EXCEPT
                              !.recent = [m \in DOMAIN @ |->
                                  IF Under(n, m)
                                  THEN [k \in Keys |->
                                           [what |-> IF R.exc = None THEN -2 ELSE -3,
                                            gone |-> FALSE]]
                                  ELSE @[m]],
                              !.clock = [m \in DOMAIN @ |->
                                  IF Under(n, m) /\ R.exc = None
                                  THEN [@[m] EXCEPT !.wkey = ""]
                                  ELSE @[m]]]
               /\ UNCHANGED <<cfg, depth, walk, pending>>

\* region.invalidate_on(*signals)
InvalidateOnCall(names, sigsets) ==
    \E n \in DOMAIN _regions \cap names, signals \in sigsets :
        /\ \A sig \in signals : Len(ReceiversOf(Cur, sig)) < MaxReceivers
        /\ Install(invalidate_on(Cur, n, signals))
        /\ last' = Called("invalidate_on", n, "", Returns(Cur, 0))
        /\ UNCHANGED <<cfg, depth, hist, walk, pending>>

\* what a firing of sig that ended as R leaves
Fire(sig, R, bound) ==
    /\ Install(R.S)
    /\ last' = [Called("fire", <<>>, sig, Returns(R.S, 0))
                   EXCEPT !.pre = {n \in bound : UserKeys(Cur, n) # {}},
                          !.late = R.late]
    /\ hist' = [hist EXCEPT
                   !.recent = [m \in DOMAIN @ |->
                       IF \E n \in bound : Under(n, m)
                       THEN [k \in Keys |-> [what |-> -3, gone |-> FALSE]]
                       ELSE @[m]],
                   !.clock = [m \in DOMAIN @ |->
                       IF \E n \in bound : Under(n, m)
                       THEN [@[m] EXCEPT !.wkey = ""]
                       ELSE @[m]]]
    /\ UNCHANGED <<cfg, depth, walk, pending>>

\* sig.send(...): a signal fires
FireCall(signals) ==
    \E sig \in signals, tos \in [1 .. MaxReceivers -> 0 .. 2] :
        LET rs == ReceiversOf(Cur, sig)
        IN  /\ \A i \in 1 .. MaxReceivers :
                   /\ tos[i] # 0 => i <= Len(rs)
                   /\ tos[i] = 1 => ReadCanTimeOut
                   /\ tos[i] = 2 => WriteCanTimeOut
            /\ Fire(sig, send(Cur, rs, tos, 1), {rs[i] : i \in 1 .. Len(rs)})

\* a RegionCache just constructed in another process, on the same store
OtherProcess(S) ==
    [S EXCEPT !.regs = EmptyFn, !.pipe = EmptyFn, !.w = FALSE, !.r = FALSE,
              !.ra = NoDeadline, !.made = EmptyFn, !.sig = EmptyFn]

\* another process, just started, calls region(name, timeout=timeout) and
\* sets a key in the region it gets: only the store changes for this process
OtherProcessCall(names, timeouts, keys, values) ==
    \E name \in names, timeout \in timeouts, key \in keys, value \in values :
        LET R == region(OtherProcess(Cur), name, timeout, "True")
            W == setitem(R.S, R.name, key, value, 0)
        IN  /\ hashes' = W.S.hashes
            /\ ttl' = W.S.ttl
            /\ child_caches' = W.S.child
            /\ last' = [Called("other", R.name, key, W) EXCEPT !.arg = name]
            /\ UNCHANGED <<_regions, _pipe, _w_conn, _r_conn, _reconnect_after,
                           made, receivers, cfg, depth, hist, walk, pending>>

\* a second passes: Redis counts the expiries down and removes what expires,
\* and the reconnect deadline comes a second nearer
Tick ==
    LET gone == {n \in DOMAIN ttl : ttl[n] <= 1}
    IN  /\ hashes' = Restrict(hashes, DOMAIN hashes \ gone)
        /\ ttl' = [n \in DOMAIN ttl \ gone |-> ttl[n] - 1]
        /\ _reconnect_after' = IF _reconnect_after > 0 THEN _reconnect_after - 1
                               ELSE _reconnect_after
        /\ last' = [NoCall EXCEPT !.op = "tick"]
        /\ hist' = [hist EXCEPT
                       !.recent = [m \in DOMAIN @ |->
                           IF m \in gone
                           THEN [k \in Keys |-> [@[m][k] EXCEPT !.gone = TRUE]]
                           ELSE @[m]],
                       !.clock = [m \in DOMAIN @ |->
                           [@[m] EXCEPT !.reset = Min(@ + 1, T),
                                        !.wage = Min(@ + 1, T)]]]
        /\ UNCHANGED <<child_caches, _regions, _pipe, _w_conn, _r_conn, made,
                       receivers, cfg, depth, walk, pending>>

\* region.invalidate() is called: conn.pipeline(), and the loop's first
\* step, the smembers of the region's child set
InvalidateBegin(names) ==
    \E n \in DOMAIN _regions \cap names :
        /\ ~walk.active
        /\ LET S0 == read_conn(conn(Cur))
           IN  /\ Install(S0)
               /\ walk' = [active |-> TRUE, root |-> n,
                           stack |-> <<Frame(S0, n, FALSE)>>,
                           pipeline |-> <<>>, seen |-> {n}, commits |-> 0]
               /\ last' = [NoCall EXCEPT !.op = "invalidate_begin", !.name = n]
               /\ UNCHANGED <<cfg, depth, hist, pending>>

\* the loop of the call on top of the stack yields its next child,
\* region(name), and calls child.invalidate(pipeline), which reads the
\* child's own child set
InvalidateChild ==
    /\ walk.active
    /\ \E name \in walk.stack[Len(walk.stack)].todo :
           LET child == region(Cur, name, NoSeconds, "True")
           IN  /\ Install(read_conn(child.S))
               /\ walk' = [walk EXCEPT
                              !.stack = Append(
                                  [@ EXCEPT ![Len(@)].todo = @ \ {name}],
                                  Frame(read_conn(child.S), child.name, TRUE)),
                              !.seen = @ \cup {child.name}]
               /\ last' = [NoCall EXCEPT !.op = "invalidate_child",
                                         !.name = child.name,
                                         !.fresh = child.S.regs # _regions]
               /\ UNCHANGED <<cfg, depth, hist, pending>>

\* the loop of the call on top of the stack is over: pipeline.delete(name),
\* pipeline.execute() if is_root_call, and the call returns
InvalidateReturn ==
    /\ walk.active
    /\ walk.stack[Len(walk.stack)].todo = {}
    /\ LET top == walk.stack[Len(walk.stack)]
       IN  /\ Install(IF top.is_root_call THEN Execute(Cur, Queued(walk)) ELSE Cur)
           /\ walk' = [walk EXCEPT
                          !.active = Len(walk.stack) > 1,
                          !.stack = SubSeq(@, 1, Len(@) - 1),
                          !.pipeline = IF top.is_root_call THEN <<>> ELSE Queued(walk),
                          !.commits = IF top.is_root_call THEN @ + 1 ELSE @]
           /\ last' = [NoCall EXCEPT
                          !.op = "invalidate_return", !.name = top.name,
                          !.pre = {m \in DOMAIN hashes :
                                      Under(walk.root, m) /\ UserKeys(Cur, m) # {}}]
           /\ UNCHANGED <<cfg, depth, hist, pending>>

(***************************************************************************)
(* region[key] = value one store operation at a time: the hlen of the TTL  *)
(* decision, the hset, the expire.                                         *)
(***************************************************************************)
\* __setitem__ is entered: nothing is done when disconnected; else
\* should_reset_timeout is computed, with len(self) when it is needed
SetBegin(names, keys, values) ==
    \E n \in DOMAIN _regions \cap names, key \in keys, value \in values :
        /\ ~pending.active
        /\ LET self == _regions[n]
               piped == _pipe[n].open
               asksLen == ~piped /\ self.timeout # NoSeconds /\ ~Truthy(self.urt)
               S1 == IF asksLen /\ ~is_disconnected(Cur) THEN conn(Cur) ELSE Cur
           IN  /\ Install(S1)
               /\ pending' =
                      IF is_disconnected(Cur) THEN NoPending
                      ELSE [active |-> TRUE, next |-> "hset", name |-> n,
                            key |-> key, raw |-> dumps(value),
                            should_reset_timeout |->
                                /\ ~piped
                                /\ self.timeout # NoSeconds
                                /\ (Truthy(self.urt) \/ len(S1, n) = 0)]
               /\ last' = [NoCall EXCEPT !.op = "set_begin", !.name = n, !.key = key]
               /\ UNCHANGED <<cfg, depth, hist, walk>>

\* the hset of the __setitem__ in progress, on the batch when one is open
SetWrite ==
    /\ pending.active /\ pending.next = "hset"
    /\ LET n == pending.name
       IN  /\ Install(IF _pipe[n].open
                      THEN [Cur EXCEPT !.pipe[n].cmds =
                               Append(@, [op |-> "hset", name |-> n,
                                          key |-> pending.key, raw |-> pending.raw])]
                      ELSE HSet(conn(Cur), n, pending.key, pending.raw))
           /\ pending' = IF pending.should_reset_timeout
                         THEN [pending EXCEPT !.next = "expire"]
                         ELSE NoPending
           /\ last' = [NoCall EXCEPT !.op = "set_write", !.name = n,
                                     !.key = pending.key]
           /\ UNCHANGED <<cfg, depth, hist, walk>>

\* the expire of the __setitem__ in progress
SetExpire ==
    /\ pending.active /\ pending.next = "expire"
    /\ Install(Expire(conn(Cur), pending.name, _regions[pending.name].timeout))
    /\ pending' = NoPending
    /\ last' = [NoCall EXCEPT !.op = "set_expire", !.name = pending.name,
                              !.key = pending.key]
    /\ UNCHANGED <<cfg, depth, hist, walk>>

\* region_cache.invalidate_connections(), called by the application
InvalidateConnectionsCall ==
    /\ Install(invalidate_connections(Cur))
    /\ last' = [NoCall EXCEPT !.op = "invalidate_connections"]
    /\ UNCHANGED <<cfg, depth, hist, walk, pending>>

(***************************************************************************)
(* The region tree: regions are requested under every form of their name,  *)
(* written, invalidated, and left to expire.                               *)
(***************************************************************************)
TreeNames == {<<>>, <<"a">>, <<"b">>, <<"a", "b">>, <<"root", "a">>}

AllNames == {<<"root">>, <<"root", "a">>, <<"root", "b">>, <<"root", "a", "b">>}

\* the variables hold the state S
Holds(S) ==
    /\ hashes = S.hashes
    /\ ttl = S.ttl
    /\ child_caches = S.child
    /\ _regions = S.regs
    /\ _pipe = S.pipe
    /\ _w_conn = S.w
    /\ _r_conn = S.r
    /\ _reconnect_after = S.ra
    /\ made = S.made
    /\ receivers = S.sig

Init ==
    /\ cfg = DefaultCfg
    /\ Holds(Fresh)
    /\ depth = EmptyFn
    /\ last = NoCall
    /\ hist = NoHist
    /\ walk = NoWalk
    /\ pending = NoPending

Next ==
    \/ RegionCall(TreeNames, {NoSeconds, T}, {"True"})
    \/ SubRegionCall({<<"root", "a">>}, {"b"})
    \/ SetCall(AllNames \ {<<"root">>}, {"k1"}, {1})
    \/ InvalidateCall(AllNames)
    \/ Tick

Spec == Init /\ [][Next]_vars

(***************************************************************************)
(* One region, root.a, of a RegionCache set up in one of several ways:     *)
(* the state after region_cache.region('a', timeout, update_resets_timeout)*)
(***************************************************************************)
RA == <<"root", "a">>

\* a RegionCache with an operation timeout
TimeoutCfg(reconnect, raise, backoff, replica) ==
    [root |-> "root", op_timeout |-> TRUE, reconnect_on_timeout |-> reconnect,
     raise_on_timeout |-> raise, reconnect_backoff |-> backoff, rr_host |-> replica]

\* the state after region('a', timeout, urt) on a RegionCache configured c
InitWith(cfgs, timeouts, urts, h) ==
    /\ cfg \in cfgs
    /\ \E timeout \in timeouts, urt \in urts :
           Holds(region(Fresh, <<"a">>, timeout, urt).S)
    /\ depth = EmptyFn
    /\ last = NoCall
    /\ hist = h
    /\ walk = NoWalk
    /\ pending = NoPending

(***************************************************************************)
(* Batch scopes on root.a, on a store that may time out.                   *)
(***************************************************************************)
InitBatch ==
    InitWith({DefaultCfg, TimeoutCfg(TRUE, FALSE, Backoff, FALSE)},
             {NoSeconds}, {"True"}, [NoHist EXCEPT !.scoped = TRUE])

NextBatch ==
    \/ GetCall({RA}, {"k1"})
    \/ SetCall({RA}, Keys, {1})
    \/ DelCall({RA}, {"k1"})
    \/ EnterCall({RA})
    \/ ExitCleanCall({RA})
    \/ ExitExcCall({RA})
    \/ Tick

SpecBatch == InitBatch /\ [][NextBatch]_vars

(***************************************************************************)
(* Properties of the region tree.                                          *)
(***************************************************************************)
\* C1: when R.invalidate() has returned, neither R nor any descendant of R
\* holds a key: the hash of each is gone from the store and item access
\* raises KeyError for every key, whatever regions were created, written,
\* invalidated or expired before, and also when R is the root.
C1_InvalidateClearsSubtree ==
    (last.op = "invalidate" /\ last.exc = None) =>
        \A n \in DOMAIN _regions \cup DOMAIN hashes :
            Under(last.name, n) =>
                /\ ~HExists(Cur, n)
                /\ \A k \in Keys :
                       /\ HGet(Cur, n, k) = NoRaw
                       /\ getitem(Cur, n, k, FALSE).exc = "KeyError"

\* an invalidation has returned, of a region that held keys and had a
\* descendant holding keys
C1_Witness ==
    /\ last.op = "invalidate"
    /\ last.exc = None
    /\ last.name \in last.pre
    /\ \E m \in last.pre : m # last.name

\* C2: R.invalidate() changes no hash of a region that is neither R nor a
\* descendant of R: its fields, their values and its expiry stay as they were.
C2_InvalidateFrame ==
    [][(last'.op = "invalidate" /\ last'.exc = None) =>
          \A m \in DOMAIN hashes \cup DOMAIN hashes' :
              ~Under(last'.name, m) =>
                  /\ HashOf(m)' = HashOf(m)
                  /\ ExpiryOf(m)' = ExpiryOf(m)]_vars

\* an invalidation that removed keys has returned while a region that is
\* neither above nor below the invalidated one holds a key
C2_Witness ==
    /\ last.op = "invalidate"
    /\ last.exc = None
    /\ last.pre # {}
    /\ \E m \in DOMAIN hashes :
           /\ ~Under(last.name, m)
           /\ ~Under(m, last.name)
           /\ UserKeys(Cur, m) # {}

\* the name with the root name in front, unless it is there already
RootQualified(name) ==
    IF name = <<>> THEN <<cfg.root>>
    ELSE IF name[1] = cfg.root THEN name
    ELSE <<cfg.root>> \o name

\* C3: region(n) registers a Region for every prefix of the root-qualified
\* name and returns the one of the whole name; every Region is constructed
\* exactly once; a registered Region is never replaced, so a later call
\* returns the identical instance; every registry key starts with the root
\* name and every registered name but the root has its parent registered.
C3_RegistryOnce ==
    /\ [](/\ last.op \in {"region", "sub_region"} =>
                /\ last.name = RootQualified(last.arg)
                /\ \A i \in 1 .. Len(last.name) :
                       SubSeq(last.name, 1, i) \in DOMAIN _regions
          /\ DOMAIN made = DOMAIN _regions
          /\ \A n \in DOMAIN made : made[n] = 1
          /\ \A n \in DOMAIN _regions :
                 /\ n[1] = cfg.root
                 /\ Len(n) > 1 => Parent(n) \in DOMAIN _regions)
    /\ [][\A n \in DOMAIN _regions :
              n \in DOMAIN _regions' /\ _regions'[n] = _regions[n]]_vars

\* region('a.b') has been called again and found everything registered
C3_Witness ==
    /\ last.op = "region"
    /\ last.arg = <<"a", "b">>
    /\ ~last.fresh
    /\ last.name = <<"root", "a", "b">>

(***************************************************************************)
(* Properties of the batch scope.                                          *)
(***************************************************************************)
\* the hash of n that the commands cmds make of the hash h
Applied(n, h, cmds) ==
    LET S0 == [hashes |-> IF DOMAIN h = {} THEN EmptyFn ELSE Put(EmptyFn, n, h),
               ttl |-> EmptyFn]
        S1 == Execute(S0, cmds)
    IN  IF n \in DOMAIN S1.hashes THEN S1.hashes[n] ELSE EmptyFn

\* C4: when the body of a batch scope on R raises, no set or delete made
\* inside the scope takes effect: after the exit the hash of R holds exactly
\* the fields it held when the scope was opened, and an exception reaches
\* the caller (__exit__ does not return true).
C4_RaisedScopeLeavesNothing ==
    (last.op = "exit_exc" /\ last.outer) =>
        /\ HashOf(last.name) = last.snap
        /\ last.exc # None \/ last.val = 0

\* C5: after the clean exit of a batch scope on R every set and delete made
\* inside the scope is applied, whatever the connection state became during
\* the scope: the hash of R is the hash at the opening of the scope with all
\* of them applied, never with only some of them.
C5_CleanScopeAppliesAll ==
    (last.op = "exit_clean" /\ last.outer /\ last.exc = None) =>
        HashOf(last.name) = Applied(last.name, last.snap, last.issued)

(***************************************************************************)
(* A timed region, root.a, refreshing or not, on a store that may time out.*)
(***************************************************************************)
InitTTL ==
    InitWith({DefaultCfg, TimeoutCfg(TRUE, FALSE, Backoff, FALSE)},
             {T}, {"True", "False"}, [NoHist EXCEPT !.clock = Put(EmptyFn, RA, NewClock)])

NextTTL ==
    \/ GetCall({RA}, {"k1"})
    \/ SetCall({RA}, {"k1"}, {1})
    \/ DelCall({RA}, {"k1"})
    \/ EnterCall({RA})
    \/ ExitCleanCall({RA})
    \/ ExitExcCall({RA})
    \/ Tick

SpecTTL == InitTTL /\ [][NextTTL]_vars

Refreshing(n) == _regions[n].timeout # NoSeconds /\ Truthy(_regions[n].urt)

\* C7 as it stands: every set on a region with a TTL that refreshes on write
\* leaves the hash with the full TTL and the key in it.
C7_EverySetResets ==
    (last.op = "set" /\ last.exc = None /\ Refreshing(last.name)) =>
        /\ ExpiryOf(last.name) = _regions[last.name].timeout
        /\ last.key \in UserKeys(Cur, last.name)

\* C7, amended: every set that is written to the store (no batch open on the
\* region, the facade not in backoff) leaves the hash of a refreshing region
\* with the full TTL, and the key it set is in the hash at every instant
\* less than T after it, unless a delete, a batch commit or an invalidation
\* came after it.
C7_DirectSetResets ==
    /\ (last.op = "set" /\ last.exc = None /\ "wrote" \in last.fx
            /\ Refreshing(last.name)) =>
           /\ ExpiryOf(last.name) = _regions[last.name].timeout
           /\ last.key \in UserKeys(Cur, last.name)
    /\ \A n \in DOMAIN hist.clock :
           (Refreshing(n) /\ hist.clock[n].wkey # ""
                /\ hist.clock[n].wage < _regions[n].timeout) =>
               hist.clock[n].wkey \in UserKeys(Cur, n)

\* a key set on a refreshing region is there T - 1 seconds after the set
C7_Witness ==
    /\ Refreshing(RA)
    /\ hist.clock[RA].wkey = "k1"
    /\ hist.clock[RA].wage = T - 1
    /\ ExpiryOf(RA) > 0
    /\ "k1" \in UserKeys(Cur, RA)
    /\ last.op = "tick"

\* C8: a region with TTL T whose expiry was last set T or more seconds ago
\* and that was not written since has expired: its hash is gone, every key
\* is reported absent and TTL answers -2.
C8_ExpiresAfterT ==
    \A n \in DOMAIN hist.clock :
        (/\ _regions[n].timeout # NoSeconds
         /\ hist.clock[n].reset >= _regions[n].timeout
         /\ ~hist.clock[n].written) =>
            /\ ~HExists(Cur, n)
            /\ TTLQuery(n) = -2
            /\ \A k \in Keys : HGet(Cur, n, k) = NoRaw

\* a region a key was set on has expired, T seconds after its expiry was set
C8_Witness ==
    /\ hist.clock[RA].reset >= T
    /\ hist.clock[RA].wkey = "k1"
    /\ ~hist.clock[RA].written
    /\ ~HExists(Cur, RA)
    /\ TTLQuery(RA) = -2
    /\ last.op = "tick"

(***************************************************************************)
(* Reads and writes of root.a, timed or not, on a store that may time out. *)
(***************************************************************************)
InitGet ==
    InitWith({DefaultCfg, TimeoutCfg(TRUE, FALSE, Backoff, FALSE)},
             {NoSeconds, T}, {"True"},
             [NoHist EXCEPT !.recent = Put(EmptyFn, RA, NeverSet)])

NextGet ==
    \/ GetCall({RA}, {"k1"})
    \/ SetCall({RA}, {"k1"}, Values)
    \/ DelCall({RA}, {"k1"})
    \/ InvalidateCall({RA})
    \/ EnterCall({RA})
    \/ ExitCleanCall({RA})
    \/ Tick

SpecGet == InitGet /\ [][NextGet]_vars

Recent(n, k) == hist.recent[n][k]

\* C6 as it stands: with the store reachable and no batch open on the
\* region, get(k) returns the value of the most recent set(k, v), and raises
\* KeyError when k was never set or was last deleted or invalidated.
C6_GetReturnsMostRecent ==
    (/\ last.op = "get" /\ last.reach
     /\ last.name \in DOMAIN hist.recent
     /\ ~_pipe[last.name].open) =>
        LET w == Recent(last.name, last.key).what
        IN  /\ w \in Values => last.exc = None /\ last.val = w
            /\ w \in {0, -1, -2} => last.exc = "KeyError"

\* C6, amended: with the store reachable and no batch open on the region,
\* get(k) returns the value of the most recent set(k, v) provided the
\* region's hash has not expired since that set, and raises KeyError when k
\* was never set, was last deleted or invalidated, or the hash has expired
\* since.
C6_GetReturnsMostRecentUnexpired ==
    (/\ last.op = "get" /\ last.reach
     /\ last.name \in DOMAIN hist.recent
     /\ ~_pipe[last.name].open) =>
        LET w == Recent(last.name, last.key)
        IN  /\ (w.what \in Values /\ ~w.gone) => last.exc = None /\ last.val = w.what
            /\ (w.what \in {0, -1, -2} \/ (w.what \in Values /\ w.gone)) =>
                   last.exc = "KeyError"

\* a get on a reachable store returns the value most recently set for the key
C6_Witness ==
    /\ last.op = "get" /\ last.reach
    /\ ~_pipe[RA].open
    /\ Recent(RA, "k1").what = 2
    /\ ~Recent(RA, "k1").gone
    /\ last.val = 2

(***************************************************************************)
(* get_or_compute on root.a under every timeout configuration.             *)
(***************************************************************************)
ComputeCfgs ==
    {DefaultCfg} \cup
    {TimeoutCfg(reconnect, raise, backoff, replica) :
        reconnect \in BOOLEAN, raise \in BOOLEAN,
        backoff \in {NoSeconds, Backoff}, replica \in BOOLEAN}

InitCompute == InitWith(ComputeCfgs, {NoSeconds}, {"True"}, NoHist)

NextCompute ==
    \/ GetOrComputeCall({RA}, {"k1"}, Values)
    \/ DelCall({RA}, {"k1"})
    \/ EnterCall({RA})
    \/ ExitCleanCall({RA})
    \/ Tick

SpecCompute == InitCompute /\ [][NextCompute]_vars

\* C9 as it stands: on a miss with the store reachable, get_or_compute
\* evaluates alt once, stores its value under the key and returns it; the
\* get_or_compute that follows returns the stored value and evaluates nothing.
C9_Memoizes ==
    /\ (last.op = "get_or_compute" /\ last.miss /\ last.reach) =>
           /\ last.evals = 1
           /\ last.exc = None /\ last.val = last.alt
           /\ HGet(Cur, last.name, last.key) = dumps(last.alt)
    /\ (last.op = "get_or_compute" /\ last.follows # 0 /\ last.reach) =>
           /\ last.evals = 0
           /\ last.exc = None /\ last.val = last.follows

\* C9, amended: the same, on a region with no batch open.
C9_MemoizesOutsideBatch ==
    /\ (last.op = "get_or_compute" /\ last.miss /\ last.reach
            /\ ~_pipe[last.name].open) =>
           /\ last.evals = 1
           /\ last.exc = None /\ last.val = last.alt
           /\ HGet(Cur, last.name, last.key) = dumps(last.alt)
    /\ (last.op = "get_or_compute" /\ last.follows # 0 /\ last.reach
            /\ ~_pipe[last.name].open) =>
           /\ last.evals = 0
           /\ last.exc = None /\ last.val = last.follows

\* the second of two get_or_compute calls returns what the first stored,
\* not its own alt
C9_Witness ==
    /\ last.op = "get_or_compute" /\ last.reach
    /\ ~_pipe[RA].open
    /\ last.follows # 0
    /\ last.alt # last.follows
    /\ last.val = last.follows
    /\ last.evals = 0

\* C10: a get_or_compute made when the facade is in backoff, or one of whose
\* store operations times out, raises nothing, returns alt's value and
\* neither writes nor queues anything.
C10_NeverFailsUnreachable ==
    (last.op = "get_or_compute" /\ ~last.reach) =>
        /\ last.exc = None
        /\ last.val = last.alt
        /\ last.fx \cap {"wrote", "piped"} = {}

(***************************************************************************)
(* Properties of the backoff window.                                       *)
(***************************************************************************)
\* C11: a get made while the facade is in backoff raises KeyError, for a key
\* the store holds too, touches nothing of the store, and leaves both
\* connections unset and the deadline as it was.
C11_BackoffGetMisses ==
    [][(is_disconnected(Cur) /\ last'.op = "get") =>
           /\ last'.exc = "KeyError"
           /\ ~_w_conn' /\ ~_r_conn'
           /\ UNCHANGED <<hashes, ttl, child_caches, _reconnect_after>>]_vars

\* a get in backoff has raised KeyError for a key that is in the store
C11_Witness ==
    /\ last.op = "get" /\ last.exc = "KeyError"
    /\ is_disconnected(Cur)
    /\ ~_w_conn /\ ~_r_conn
    /\ HGet(Cur, last.name, last.key) # NoRaw

\* C12 as it stands: a set and a delete made while the facade is in backoff
\* raise nothing and change nothing of the store.
C12_BackoffWritesDropped ==
    [][(is_disconnected(Cur) /\ last'.op \in {"set", "del"}) =>
           /\ last'.exc = None
           /\ UNCHANGED <<hashes, ttl, child_caches, _pipe>>]_vars

\* C12, amended: a set made while the facade is in backoff raises nothing, a
\* delete made then raises redis.TimeoutError, and neither changes anything
\* of the store or queues anything.
C12_BackoffSetDroppedDeleteRaises ==
    [][(is_disconnected(Cur) /\ last'.op \in {"set", "del"}) =>
           /\ last'.op = "set" => last'.exc = None
           /\ last'.op = "del" => last'.exc = "TimeoutError"
           /\ UNCHANGED <<hashes, ttl, child_caches, _pipe>>]_vars

\* a set was made in backoff for a key the store does not hold
C12_Witness ==
    /\ last.op = "set" /\ last.exc = None
    /\ "dropped" \in last.fx
    /\ is_disconnected(Cur)
    /\ HGet(Cur, last.name, last.key) = NoRaw

(***************************************************************************)
(* Two processes on one store: this one holds root.a, another one creates  *)
(* root.a.c and writes to it.                                              *)
(***************************************************************************)
RAC == <<"root", "a", "c">>

InitProc == InitWith({DefaultCfg}, {NoSeconds, T}, {"True"}, NoHist)

NextProc ==
    \/ OtherProcessCall({<<"a", "c">>}, {NoSeconds, T}, Keys, {1})
    \/ RegionCall({<<"a", "c">>}, {NoSeconds}, {"True"})
    \/ SetCall({RA, RAC}, {"k1"}, {1})
    \/ InvalidateCall({<<"root">>, RA})
    \/ Tick

SpecProc == InitProc /\ [][NextProc]_vars

\* C13: every non-root region a process has created is in the remote child
\* set of its parent; and when this process invalidates a region above
\* root.a.c, which another process created and this one never requested,
\* the hash of root.a.c is gone afterwards.
C13_InvalidateReachesForeignChild ==
    /\ [](\A n \in DOMAIN _regions \cup DOMAIN hashes :
              HasDot(n) => n \in SMembers(Cur, Parent(n)))
    /\ [][(/\ last'.op = "invalidate" /\ last'.exc = None
           /\ RAC \notin DOMAIN _regions
           /\ Under(last'.name, RAC)) =>
              RAC \notin DOMAIN hashes']_vars

\* an invalidate has cleared the keys of root.a.c, a region this process
\* came to know only through the child set during the call
C13_Witness ==
    /\ last.op = "invalidate" /\ last.exc = None
    /\ last.fresh
    /\ RAC \in last.pre
    /\ RAC \notin DOMAIN hashes
    /\ made[RAC] = 1

(***************************************************************************)
(* Properties of parent.region(name).                                      *)
(***************************************************************************)
\* the region parent.region(name) was called on, in the most recent call
Self == Parent(last.arg)

\* C14: a sub-region created by parent.region(name) with no policy given has
\* the refresh policy of its parent; and a set written to a timed region
\* whose parent refreshes on write leaves the region's hash with its full TTL.
C14_ChildInheritsPolicy ==
    /\ (last.op = "sub_region" /\ last.fresh) =>
           Truthy(_regions[last.name].urt) = Truthy(_regions[Self].urt)
    /\ (/\ last.op = "set" /\ last.exc = None /\ "wrote" \in last.fx
        /\ HasDot(last.name)
        /\ _regions[last.name].timeout # NoSeconds
        /\ Refreshing(Parent(last.name))) =>
           ExpiryOf(last.name) = _regions[last.name].timeout

\* C15 as it stands: the region parent.region(name) returns, no timeout
\* given, has the timeout of parent, and its hash that TTL on creation.
C15_ChildHasParentTimeout ==
    last.op = "sub_region" =>
        /\ _regions[last.name].timeout = _regions[Self].timeout
        /\ (last.fresh /\ _regions[last.name].timeout # NoSeconds) =>
               ExpiryOf(last.name) = _regions[last.name].timeout

\* C15, amended: when parent.region(name), no timeout given, creates the
\* sub-region (the name was not registered), the sub-region has the timeout
\* of parent and its hash has that TTL when the call returns.
C15_CreatedChildHasParentTimeout ==
    (last.op = "sub_region" /\ last.fresh) =>
        /\ _regions[last.name].timeout = _regions[Self].timeout
        /\ _regions[last.name].timeout # NoSeconds =>
               ExpiryOf(last.name) = _regions[last.name].timeout

\* parent.region(name) has created a sub-region of a parent with timeout T
C15_Witness ==
    /\ last.op = "sub_region" /\ last.fresh
    /\ _regions[Self].timeout = T
    /\ _regions[last.name].timeout = T
    /\ ExpiryOf(last.name) = T

(***************************************************************************)
(* Invalidation on signals: root.a bound to two signals, on a store that   *)
(* may time out.                                                           *)
(***************************************************************************)
InitSignal ==
    InitWith({DefaultCfg, TimeoutCfg(TRUE, FALSE, Backoff, FALSE)},
             {NoSeconds}, {"True"}, NoHist)

NextSignal ==
    \/ InvalidateOnCall({RA}, SUBSET Signals \ {{}})
    \/ FireCall(Signals)
    \/ SetCall({RA}, {"k1"}, {1})
    \/ GetCall({RA}, {"k1"})
    \/ Tick

SpecSignal == InitSignal /\ [][NextSignal]_vars

\* the regions with a handler connected to the signal that fired last
Fired == ReceiversOf(Cur, last.key)

\* C16 as it stands: when a firing of a signal returns, every region bound to
\* the signal by invalidate_on has none of the keys set in it before.
C16_FiringInvalidates ==
    last.op = "fire" =>
        \A i \in 1 .. Len(Fired) : UserKeys(Cur, Fired[i]) = {}

\* C16, amended: when a firing of a signal returns, every region bound to the
\* signal whose invalidation in the handler did not time out has none of the
\* keys set in it before; a handler whose invalidation times out logs it and
\* the firing returns normally all the same.
C16_FiringInvalidatesUnlessTimeout ==
    last.op = "fire" =>
        /\ last.exc = None
        /\ \A i \in 1 .. Len(Fired) :
               i \notin last.late => UserKeys(Cur, Fired[i]) = {}

\* the second signal a region was bound to has fired and cleared its keys
C16_Witness ==
    /\ last.op = "fire" /\ last.key = "other_signal"
    /\ Len(ReceiversOf(Cur, "named_signal")) > 0
    /\ RA \in last.pre
    /\ last.late = {}
    /\ UserKeys(Cur, RA) = {}

(***************************************************************************)
(* A function cached in root.a, timed or not, with batch scopes,           *)
(* invalidation and a store that may time out.                             *)
(***************************************************************************)
InitCached ==
    InitWith({DefaultCfg, TimeoutCfg(TRUE, FALSE, Backoff, FALSE)},
             {NoSeconds, T}, {"True"}, NoHist)

NextCached ==
    \/ CachedCall({RA}, Args, Values)
    \/ InvalidateCall({RA})
    \/ EnterCall({RA})
    \/ ExitCleanCall({RA})
    \/ Tick

SpecCached == InitCached /\ [][NextCached]_vars

\* C17 as it stands: a call of a cached function that misses, on a reachable
\* store, calls the function once and stores what it returned; the call with
\* the same arguments that comes right after a call on a reachable store
\* does not call the function and returns what that call returned.
C17_CachedCallsOnce ==
    /\ (last.op = "cached" /\ last.miss /\ last.reach) =>
           /\ last.evals = 1
           /\ last.val = last.alt
           /\ HGet(Cur, last.name, last.key) = dumps(last.alt)
    /\ (last.op = "cached" /\ last.follows # 0 /\ last.reach) =>
           /\ last.evals = 0
           /\ last.val = last.follows

\* C17, amended: the same, on a region with no batch scope open.
C17_CachedCallsOnceOutsideBatch ==
    /\ (last.op = "cached" /\ last.miss /\ last.reach
            /\ ~_pipe[last.name].open) =>
           /\ last.evals = 1
           /\ last.val = last.alt
           /\ HGet(Cur, last.name, last.key) = dumps(last.alt)
    /\ (last.op = "cached" /\ last.follows # 0 /\ last.reach
            /\ ~_pipe[last.name].open) =>
           /\ last.evals = 0
           /\ last.val = last.follows

\* the second of two calls with the same arguments has returned what the
\* first returned, without calling the function, which would have returned
\* something else
C17_Witness ==
    /\ last.op = "cached" /\ last.reach
    /\ ~_pipe[RA].open
    /\ last.follows # 0
    /\ last.alt # last.follows
    /\ last.val = last.follows
    /\ last.evals = 0

(***************************************************************************)
(* Properties of the connection state.                                     *)
(***************************************************************************)
\* C18: when a store operation of a get, set, delete, batch commit or
\* invalidate has timed out, both connections are unset and the reconnect
\* deadline is ahead.
C18_TimeoutStartsBackoff ==
    (\/ last.op = "get" /\ ~last.reach
     \/ /\ last.op \in {"set", "del", "exit_clean", "invalidate"}
        /\ last.exc = "TimeoutError") =>
        /\ ~_w_conn /\ ~_r_conn
        /\ _reconnect_after > 0

\* C19: with no backoff configured the facade never reports disconnected;
\* and whenever a call sets the reconnect deadline, the deadline is the
\* configured number of seconds ahead (so that is_disconnected is true until
\* then and false from then on).
C19_DeadlineIsBackoffSecondsAhead ==
    /\ [](cfg.reconnect_backoff = NoSeconds => ~is_disconnected(Cur))
    /\ [][(/\ last'.op # "tick"
           /\ _reconnect_after' # _reconnect_after
           /\ _reconnect_after' # NoDeadline) =>
              _reconnect_after' = cfg.reconnect_backoff]_vars

\* C20: no call made while the facade is in backoff creates a connection or
\* clears or moves the reconnect deadline.
C20_BackoffNeverReconnects ==
    [][(is_disconnected(Cur) /\ last'.op # "tick") =>
           /\ ~_w_conn' /\ ~_r_conn'
           /\ _reconnect_after' = _reconnect_after]_vars

(***************************************************************************)
(* A RegionCache that raises on timeout: gets and sets on root.a, the      *)
(* connections dropped by a timeout that was swallowed or by the           *)
(* application.                                                            *)
(***************************************************************************)
InitRaise ==
    InitWith({TimeoutCfg(TRUE, raise, Backoff, FALSE) : raise \in BOOLEAN},
             {NoSeconds}, {"True"}, NoHist)

NextRaise ==
    \/ GetCall({RA}, Keys)
    \/ SetCall({RA}, Keys, Values)
    \/ InvalidateConnectionsCall
    \/ Tick

SpecRaise == InitRaise /\ [][NextRaise]_vars

\* C21: with raise_on_timeout set, a get made while the facade is in backoff
\* raises redis.TimeoutError, not KeyError.
C21_BackoffGetRaisesTimeout ==
    [][(is_disconnected(Cur) /\ cfg.raise_on_timeout /\ last'.op = "get") =>
           last'.exc = "TimeoutError"]_vars

(***************************************************************************)
(* invalidate() step by step in this process, while another process        *)
(* creates root.a.c and writes to it.                                      *)
(***************************************************************************)
InitWalk == Init

NextWalk ==
    \/ ~walk.active /\ RegionCall({<<"a">>, <<"a", "b">>}, {NoSeconds}, {"True"})
    \/ ~walk.active /\ SetCall({<<"root">>, RA}, {"k1"}, {1})
    \/ InvalidateBegin({<<"root">>, RA})
    \/ InvalidateChild
    \/ InvalidateReturn
    \/ OtherProcessCall({RAC}, {NoSeconds}, {"k1"}, {1})

SpecWalk == InitWalk /\ [][NextWalk]_vars

WalkSteps == {"invalidate_begin", "invalidate_child", "invalidate_return"}

\* C22: an invalidate() commits once, in the step in which the top-level
\* call returns, when every discovered descendant has been visited; that
\* step removes the hash of the region and of every discovered descendant
\* together, and no other step of the call removes a hash or a key of one.
C22_OneCommitAtTopLevel ==
    /\ [][last'.op \in WalkSteps =>
             IF walk.active /\ walk'.commits # walk.commits
             THEN /\ walk.commits = 0
                  /\ Len(walk.stack) = 1
                  /\ walk.stack[1].name = walk.root
                  /\ walk.stack[1].todo = {}
                  /\ ~walk'.active
                  /\ \A n \in walk.seen : n \notin DOMAIN hashes'
             ELSE /\ walk'.active
                  /\ \A n \in DOMAIN hashes :
                         /\ n \in DOMAIN hashes'
                         /\ UserKeys(Cur, n) \subseteq DOMAIN hashes'[n]]_vars
    /\ [](walk.active => walk.commits = 0)
    /\ [](~walk.active => walk.commits = IF walk.root = <<>> THEN 0 ELSE 1)

\* an invalidate() of root has committed: it had discovered root.a and,
\* below it, the region root.a.c of the other process, and both held keys
C22_Witness ==
    /\ last.op = "invalidate_return" /\ ~walk.active
    /\ walk.root = <<"root">>
    /\ {RA, RAC} \subseteq walk.seen
    /\ {RA, RAC} \subseteq last.pre
    /\ walk.commits = 1

(***************************************************************************)
(* A RegionCache whose root is named 'root' or 'cache': the region x is    *)
(* requested as 'x', as '<root>.x' and as the sub-region of the root, and  *)
(* its sub-region s as 'x.s' and through Region.region.                    *)
(***************************************************************************)
RootNames == {"root", "cache"}

InitRoot ==
    /\ cfg \in {[DefaultCfg EXCEPT !.root = r] : r \in RootNames}
    /\ Holds(Fresh)
    /\ depth = EmptyFn
    /\ last = NoCall
    /\ hist = NoHist
    /\ walk = NoWalk
    /\ pending = NoPending

NextRoot ==
    \/ RegionCall({<<>>, <<"x">>, <<cfg.root, "x">>, <<"x", "s">>}, {NoSeconds}, {"True"})
    \/ SubRegionCall({<<cfg.root>>}, {"x"})
    \/ SubRegionCall({<<cfg.root, "x">>}, {"s"})
    \/ SetCall({<<cfg.root, "x">>, <<cfg.root, "x", "s">>}, {"k1"}, Values)
    \/ InvalidateCall({<<cfg.root>>})

SpecRoot == InitRoot /\ [][NextRoot]_vars

\* the name under which region(n) registers a region when the root is r
Rooted(n) ==
    IF n = <<>> THEN <<cfg.root>>
    ELSE IF Head(n) = cfg.root THEN n
    ELSE <<cfg.root>> \o n

\* C23: whatever the root's name r, region(n) gives the region named n when n
\* is r or starts with r, and the region named r.n otherwise;
\* parent.region(s) gives the region named parent.name + '.' + s; and every
\* registered name is r or starts with r.
C23_RootedAtConfiguredRoot ==
    /\ last.op = "region" => last.name = Rooted(last.arg)
    /\ last.op = "sub_region" => last.name = last.arg
    /\ \A n \in DOMAIN _regions : Head(n) = cfg.root

(***************************************************************************)
(* Properties of nested and failed batch scopes.                           *)
(***************************************************************************)
Exits == {"exit_clean", "exit_exc"}

\* C24: while the caller is inside a 'with region:' block, nested or not,
\* the region's batch is open; leaving an inner block commits nothing and
\* leaves the batch as it is; and no exit raises an error of its own for
\* want of a batch.
C24_NestedScopesShareBatch ==
    /\ [](\A n \in DOMAIN depth : _pipe[n].open)
    /\ [](last.op \in Exits => last.exc # "AttributeError")
    /\ [][(last'.op \in Exits /\ Depth(last'.name) > 1) =>
             UNCHANGED <<hashes, ttl, _pipe>>]_vars

\* C25: when the caller is inside no 'with region:' block, the region has
\* no batch open, however the last block was left; a set or a delete made
\* then is not queued on a batch.
C25_NoBatchOutsideScope ==
    /\ \A n \in DOMAIN _pipe : n \notin DOMAIN depth => ~_pipe[n].open
    /\ (last.op \in {"set", "del"} /\ last.name \notin DOMAIN depth) =>
           "piped" \notin last.fx

(***************************************************************************)
(* Properties of the expiry of a region that does not refresh on write.    *)
(***************************************************************************)
NonRefreshing(n) == _regions[n].timeout # NoSeconds /\ ~Truthy(_regions[n].urt)

\* C26: on a region with a TTL that does not refresh on write, a set that
\* reaches the store (directly, or with the commit of its batch) sets the
\* expiry to the full TTL exactly when the hash was absent just before; and
\* a set, a delete or a commit on a hash that was there, and is there
\* afterwards, leaves the hash its remaining life.
C26_ResetExactlyOnEmpty ==
    [][\A n \in DOMAIN _regions :
           (/\ last'.name = n
            /\ last'.op \in {"set", "del", "exit_clean"}
            /\ last'.exc = None
            /\ "wrote" \in last'.fx
            /\ NonRefreshing(n)) =>
               /\ last'.op # "del" => ("reset" \in last'.fx <=> ~HExists(Cur, n))
               /\ ("reset" \in last'.fx /\ n \in DOMAIN hashes') =>
                      ExpiryOf(n)' = _regions[n].timeout
               /\ (HExists(Cur, n) /\ n \in DOMAIN hashes') =>
                      ExpiryOf(n)' = ExpiryOf(n)]_vars

(***************************************************************************)
(* Sets on root.a, a region with a TTL, one store operation at a time,     *)
(* while time passes and the hash expires.                                 *)
(***************************************************************************)
InitRace == InitWith({DefaultCfg}, {T}, {"True", "False"}, NoHist)

NextRace ==
    \/ SetBegin({RA}, Keys, Values)
    \/ SetWrite
    \/ SetExpire
    \/ ~pending.active /\ DelCall({RA}, Keys)
    \/ Tick

SpecRace == InitRace /\ [][NextRace]_vars

\* C27: when no set is in progress, the hash of a region with a TTL that
\* holds a key has an expiry.
C27_KeysNeverOutliveTTL ==
    ~pending.active =>
        \A n \in DOMAIN _regions :
            (_regions[n].timeout # NoSeconds /\ UserKeys(Cur, n) # {}) =>
                n \in DOMAIN ttl

====
